---- MODULE Spec2Model ----
(***************************************************************************)
(* Model of pulse-source-listener (src/src/main.rs): the consumer thread   *)
(* that owns ListenerState, the event channel filled by the library's      *)
(* callback thread, and the sound server the consumer queries.             *)
(*                                                                         *)
(* Option<T> values are sequences: None is <<>> and Some(x) is <<x>>.      *)
(* Result<T, Errors> values are records [res, val] with res "Ok" or the    *)
(* name of the Errors variant.                                             *)
(***************************************************************************)
EXTENDS Integers, Sequences, FiniteSets, TLC

\* Number of callback / signal-handler invocations of the library thread.
MaxEvents == 2

\* The source indexes and source names the server uses, in ascending order.
IdSeq == <<1, 2>>
Ids == {IdSeq[k] : k \in 1..Len(IdSeq)}
Names == {"a", "b"}

None == <<>>
Some(x) == <<x>>

\* struct SourceDatum { name, mute }
SourceDatum == [name : Names, mute : BOOLEAN]

\* type Sources = HashMap<u32, SourceDatum>
Sources == UNION {[D -> SourceDatum] : D \in SUBSET Ids}

NoSources == [i \in {} |-> [name |-> "a", mute |-> FALSE]]

\* Insert with the bug of dropping the new entry.
InsertDrops(m, k, v) == m

\* HashMap::insert
Insert(m, k, v) == [i \in (DOMAIN m) \cup {k} |-> IF i = k THEN v ELSE m[i]]

\* Remove with the bug of leaving the entry in the map.
RemoveKeeps(m, k) == m

\* HashMap::remove
Remove(m, k) == [i \in (DOMAIN m) \ {k} |-> m[i]]

\* enum CallbackComms / enum PulseChange: the messages of the event channel.
ChangeType(change, idx) == [type |-> "ChangeType", change |-> change, idx |-> idx]
Shutdown == [type |-> "Shutdown", change |-> "-", idx |-> 0]
CallbackDone == [type |-> "CallbackDone", change |-> "-", idx |-> 0]
NoEvent == [type |-> "-", change |-> "-", idx |-> 0]

\* pulse::context::State, in the order a connection goes through them.
StateSeq == <<"Unconnected", "Connecting", "Authorizing", "SettingName", "Ready">>
TerminalStates == {"Ready", "Failed", "Terminated"}

\* Mainloop::lock, called by the consumer thread: who owns the processing
\* lock afterwards.
Lock(owner) == "consumer"

\* Mainloop::unlock with the bug of keeping the lock.
UnlockKeeps(owner) == owner

\* Mainloop::unlock, called by the consumer thread.
Unlock(owner) == "free"

\* lock(); issue one request; unlock(): the owner of the processing lock
\* while the caller then blocks on the response channel.
Request(owner) == Unlock(Lock(owner))

\* terminate: lock(); context.disconnect(); unlock(); mainloop.stop()
terminate(owner) == Unlock(Lock(owner))

VARIABLES
    chan,               \* the event channel (tx, rx) of main
    lock,               \* who owns the processing lock of the Mainloop
    ctx_state,          \* context.get_state()
    notifier,           \* a state callback is set on the context
    sent,               \* number of callbacks the library thread has run
    sources,            \* ListenerState.sources
    default_source_id,  \* ListenerState.default_source_id
    pc,                 \* where the consumer thread is
    old_default_mute,   \* local of subscribe_source_mute
    event,              \* local of subscribe_source_mute, while an event is handled
    updated_source,     \* local of subscribe_source_mute, while an event is handled
    subscribe_result,   \* what subscribe_source_mute returned
    result,             \* what main returned
    pre,                \* ghost: the listener state when `event` was dequeued
    last                \* ghost: what the consumer did in the step just taken

vars == <<chan, lock, ctx_state, notifier, sent, sources, default_source_id, pc, old_default_mute, event,
          updated_source, subscribe_result, result, pre, last>>

stateVars == <<sources, default_source_id>>

NotFetched == [res |-> "-", val |-> None]

\* pre while no event is being handled.  repeat: the event dequeued is the
\* one handled in the step before, and the server described the same record;
\* default_name: the default source name the server gave in the step before.
Idle == [sources |-> NoSources, default_source_id |-> None, repeat |-> FALSE,
         default_name |-> None]

\* last after a step of the library thread.  default_name is None when the
\* step made no get_server_info request and Some(name) for the reply `name`;
\* held is the owner of the processing lock while the step was blocked on a
\* response channel; listed, items and ended are the sources the server
\* listed, the number of items delivered and the kind of the last message
\* (End or Error) of a get_source_info_list request;
\* state is what get_state returned in connect_to_server.
NoStep ==
    [kind |-> "none", event |-> NoEvent, old |-> None, out |-> <<>>, reports |-> 0,
     sources |-> NoSources, default_source_id |-> None, updated_source |-> NotFetched,
     default_name |-> None, repeat |-> FALSE,
     held |-> "free", listed |-> NoSources, items |-> 0, ended |-> "-", state |-> "-"]

\* ListenerState::default_source
default_source(srcs, id) ==
    IF id # None /\ id[1] \in DOMAIN srcs THEN Some(srcs[id[1]]) ELSE None

\* The mute flag of the default source, as computed at the top of the loop.
DefaultMute(srcs, id) ==
    IF default_source(srcs, id) # None THEN Some(default_source(srcs, id)[1].mute) ELSE None

(***************************************************************************)
(* The collaborator: replies of the sound server to introspection requests *)
(***************************************************************************)

\* pulse::callbacks::ListResult, as handed to the callback of a request.
ListItem(i, d) == [kind |-> "Item", index |-> i, name |-> Some(d.name), mute |-> d.mute]
ListEnd == [kind |-> "End", index |-> 0, name |-> None, mute |-> FALSE]
ListError == [kind |-> "Error", index |-> 0, name |-> None, mute |-> FALSE]

\* The indexes of srv in ascending order.
IndexSeq(srv) == SelectSeq(IdSeq, LAMBDA i : i \in DOMAIN srv)

ItemSeq(srv) == [k \in 1..Len(IndexSeq(srv)) |-> ListItem(IndexSeq(srv)[k], srv[IndexSeq(srv)[k]])]

\* get_source_info_list: every item then End, or an Error after any prefix.
SourceInfoListReplies(srv) ==
    {ItemSeq(srv) \o <<ListEnd>>}
        \cup {SubSeq(ItemSeq(srv), 1, k) \o <<ListError>> : k \in 0..Len(ItemSeq(srv))}

\* get_source_info_by_index for a source the server has as src (None: it has
\* no source of that index): the item then End, End alone, or an Error.
SourceInfoByIndexReplies(idx, src) ==
    (IF src # None THEN {<<ListItem(idx, src[1]), ListEnd>>} ELSE {<<ListEnd>>})
        \cup {<<ListError>>}

\* The sources a get_source_info_list reply describes in full: those of the
\* server when the list reached its End, none when it was cut by an Error.
Listed(srv, reply) == IF reply[Len(reply)] = ListEnd THEN srv ELSE NoSources

\* get_server_info: the default source names the server can have.
DefaultNames == {None} \cup {Some(n) : n \in Names}

(***************************************************************************)
(* Pure functions of main.rs                                               *)
(***************************************************************************)

\* enum SrcListState
SrcItem(i, d) == [kind |-> "Item", index |-> i, src |-> Some(d)]
SrcDone == [kind |-> "Done", index |-> 0, src |-> None]
SrcErr == [kind |-> "Err", index |-> 0, src |-> None]

\* handle_list_result with the bug of taking an Error for the End of the list.
handle_list_result_end(r) ==
    CASE r.kind \in {"Error", "End"} -> SrcDone
      [] r.kind = "Item" ->
            SrcItem(r.index,
                    [name |-> IF r.name = None THEN "unknown" ELSE r.name[1],
                     mute |-> r.mute])

\* handle_list_result: the message the callback sends for one ListResult.
handle_list_result(r) ==
    CASE r.kind = "Error" -> SrcErr
      [] r.kind = "End" -> SrcDone
      [] r.kind = "Item" ->
            SrcItem(r.index,
                    [name |-> IF r.name = None THEN "unknown" ELSE r.name[1],
                     mute |-> r.mute])

Ok(v) == [res |-> "Ok", val |-> v]
Err(e, v) == [res |-> e, val |-> v]

RECURSIVE get_sources_loop(_, _)
\* The receive loop of get_sources over the messages of its response channel.
get_sources_loop(msgs, acc) ==
    IF msgs = <<>> THEN Err("Blocked", NoSources)
    ELSE LET m == Head(msgs) IN
         CASE m.kind = "Item" -> get_sources_loop(Tail(msgs), Insert(acc, m.index, m.src[1]))
           [] m.kind = "Done" -> Ok(acc)
           [] m.kind = "Err" -> Err("SrcListError", NoSources)

\* get_sources with the bug of taking a failed list for an empty one.
get_sources_lenient(reply) ==
    LET r == get_sources_loop([k \in 1..Len(reply) |-> handle_list_result(reply[k])], NoSources)
    IN IF r.res = "SrcListError" THEN Ok(NoSources) ELSE r

\* get_sources, given the library's reply
get_sources(reply) ==
    get_sources_loop([k \in 1..Len(reply) |-> handle_list_result(reply[k])], NoSources)

RECURSIVE get_source_by_idx_loop(_, _)
\* The receive loop of get_source_by_idx.
get_source_by_idx_loop(msgs, source) ==
    IF msgs = <<>> THEN Err("Blocked", None)
    ELSE LET m == Head(msgs) IN
         CASE m.kind = "Item" -> get_source_by_idx_loop(Tail(msgs), m.src)
           [] m.kind = "Done" -> Ok(source)
           [] m.kind = "Err" -> Err("SrcListError", None)

\* get_source_by_idx, given the library's reply
get_source_by_idx(reply) ==
    get_source_by_idx_loop([k \in 1..Len(reply) |-> handle_list_result(reply[k])], None)

\* get_default_source_index: the indexes it can return for the server's
\* default source name; the scan follows the HashMap's iteration order, so
\* any entry of that name can be the first match.
get_default_source_index(name, srcs) ==
    IF name # None /\ \E i \in DOMAIN srcs : srcs[i].name = name[1]
    THEN {Some(i) : i \in {j \in DOMAIN srcs : srcs[j].name = name[1]}}
    ELSE {None}

\* report_mute_change with the bug of taking "no default before" as "no change".
report_mute_change_suppress(srcs, id, old) ==
    IF default_source(srcs, id) # None
    THEN LET new_src == default_source(srcs, id)[1] IN
         IF old # None /\ Some(new_src.mute) # old
         THEN <<IF new_src.mute THEN "MUTED" ELSE "UNMUTED">>
         ELSE <<>>
    ELSE <<"No default source">>

\* report_mute_change with the bug of printing nothing without a default source.
report_mute_change_quiet(srcs, id, old) ==
    IF default_source(srcs, id) # None
    THEN LET new_src == default_source(srcs, id)[1] IN
         IF Some(new_src.mute) # old
         THEN <<IF new_src.mute THEN "MUTED" ELSE "UNMUTED">>
         ELSE <<>>
    ELSE <<>>

\* report_mute_change with the bug of not comparing with the old mute flag.
report_mute_change_always(srcs, id, old) ==
    IF default_source(srcs, id) # None
    THEN <<IF default_source(srcs, id)[1].mute THEN "MUTED" ELSE "UNMUTED">>
    ELSE <<"No default source">>

\* report_mute_change: the lines it prints.
report_mute_change(srcs, id, old) ==
    IF default_source(srcs, id) # None
    THEN LET new_src == default_source(srcs, id)[1] IN
         IF Some(new_src.mute) # old
         THEN <<IF new_src.mute THEN "MUTED" ELSE "UNMUTED">>
         ELSE <<>>
    ELSE <<"No default source">>

\* pulse::context::subscribe::Facility and Operation
Facilities == {"Sink", "Source", "SinkInput", "SourceOutput", "Module", "Client",
               "SampleCache", "Server", "Card"}
Operations == {"New", "Changed", "Removed"}

\* The subscribe callback with the bug of taking every facility but Source
\* for the server.
subscribe_callback_any(facility, operation, idx) ==
    CASE facility = "Source" /\ operation = "Changed" -> <<ChangeType("SourceChange", idx)>>
      [] facility = "Source" /\ operation = "New" -> <<ChangeType("SourceNew", idx)>>
      [] facility = "Source" /\ operation = "Removed" -> <<ChangeType("SourceDrop", idx)>>
      [] OTHER -> <<ChangeType("Server", 0)>>

\* The subscribe callback: the messages it sends for one notification.
subscribe_callback(facility, operation, idx) ==
    CASE facility = "Source" /\ operation = "Changed" -> <<ChangeType("SourceChange", idx)>>
      [] facility = "Source" /\ operation = "New" -> <<ChangeType("SourceNew", idx)>>
      [] facility = "Source" /\ operation = "Removed" -> <<ChangeType("SourceDrop", idx)>>
      [] facility = "Server" -> <<ChangeType("Server", 0)>>
      [] OTHER -> <<>>

\* main with the bug of returning Err(Shutdown) as it is.
main_result_raw(sub) == sub

\* main: the process result for what subscribe_source_mute returned.
main_result(sub) == IF sub = "Shutdown" THEN "Ok" ELSE sub

(***************************************************************************)
(* Initial state: main has created the channel, the Mainloop and the       *)
(* Context and bound the signal handlers; connect_to_server is about to    *)
(* run.                                                                    *)
(*                                                                         *)
(* The sound server changes at any time and the program sees it only in    *)
(* the replies to its requests: every reply is drawn from what a server in *)
(* any state can answer.                                                   *)
(***************************************************************************)
Init ==
    /\ chan = <<>>
    /\ lock = "free"
    /\ ctx_state = "Unconnected"
    /\ notifier = FALSE
    /\ sent = 0
    /\ sources = NoSources
    /\ default_source_id = None
    /\ pc = "connect"
    /\ old_default_mute = None
    /\ event = NoEvent
    /\ updated_source = NotFetched
    /\ subscribe_result = "NotCalled"
    /\ result = "Running"
    /\ pre = Idle
    /\ last = NoStep

(***************************************************************************)
(* The library thread: callbacks that send on the event channel            *)
(***************************************************************************)
consumerVars == <<lock, notifier, sources, default_source_id, pc, old_default_mute,
                  event, updated_source, subscribe_result, result, pre>>

Subscribed == pc \in {"recv", "srv_reload", "chg_resolve"}

\* The subscribe callback runs for one notification of the server.
Notify ==
    /\ Subscribed
    /\ lock = "free"
    /\ sent < MaxEvents
    /\ \E facility \in Facilities :
       \E operation \in Operations :
       \E idx \in Ids :
          chan' = chan \o subscribe_callback(facility, operation, idx)
    /\ sent' = sent + 1
    /\ last' = NoStep
    /\ UNCHANGED <<consumerVars, ctx_state>>

\* The state callback set by connect_to_server: the messages it sends for
\* one change of the context state.
state_callback == <<CallbackDone>>

\* The context changes its state while connect_to_server waits, and the
\* library runs the state callback if one is set.
StateChange ==
    /\ pc = "connect_wait"
    /\ lock = "free"
    /\ ctx_state \notin {"Failed", "Terminated"}
    /\ \E s \in {"Failed", "Terminated"}
                \cup {StateSeq[k + 1] : k \in {j \in 1..(Len(StateSeq) - 1) : StateSeq[j] = ctx_state}} :
          ctx_state' = s
    /\ chan' = IF notifier THEN chan \o state_callback ELSE chan
    /\ last' = NoStep
    /\ UNCHANGED <<consumerVars, sent>>

\* A signal handler of bind_signals runs; the mainloop thread dispatches it,
\* from mainloop.start() to mainloop.stop().
Signal ==
    /\ pc \notin {"connect", "connect_locked", "done"}
    /\ lock = "free"
    /\ sent < MaxEvents
    /\ chan' = Append(chan, Shutdown)
    /\ sent' = sent + 1
    /\ last' = NoStep
    /\ UNCHANGED <<consumerVars, ctx_state>>

(***************************************************************************)
(* The consumer thread                                                     *)
(***************************************************************************)

\* connect_to_server with the bug of taking a failed context for a connection.
connect_outcome_lenient(state) ==
    CASE state \in {"Ready", "Failed"} -> "Ok"
      [] state = "Terminated" -> "ContextTerminated"
      [] OTHER -> "continue"

\* connect_to_server: what the wait loop does for the state get_state returned.
connect_outcome(state) ==
    CASE state = "Ready" -> "Ok"
      [] state = "Failed" -> "ContextFailed"
      [] state = "Terminated" -> "ContextTerminated"
      [] OTHER -> "continue"

\* connect_to_server returns Err(err) and main returns it.
ConnectFailed(err, e, state) ==
    /\ pc' = "done"
    /\ result' = err
    /\ last' = [NoStep EXCEPT !.kind = "connect_failed", !.event = e, !.state = state]

\* connect_to_server: mainloop.lock() and set_state_callback
ConnectLock ==
    /\ pc = "connect"
    /\ lock' = Lock(lock)
    /\ notifier' = TRUE
    /\ pc' = "connect_locked"
    /\ last' = [NoStep EXCEPT !.kind = "partial"]
    /\ UNCHANGED <<chan, ctx_state, sent, stateVars, old_default_mute, event,
                   updated_source, subscribe_result, result, pre>>

\* connect_to_server: context.connect()?, mainloop.unlock(), mainloop.start()?
ConnectRequest ==
    /\ pc = "connect_locked"
    /\ \E connected \in BOOLEAN : \E started \in BOOLEAN :
          IF ~connected
          THEN /\ lock' = lock
               /\ ConnectFailed("PAError", NoEvent, "-")
          ELSE /\ lock' = Unlock(lock)
               /\ IF ~started
                  THEN ConnectFailed("PAError", NoEvent, "-")
                  ELSE /\ pc' = "connect_wait"
                       /\ result' = result
                       /\ last' = [NoStep EXCEPT !.kind = "partial"]
    /\ UNCHANGED <<chan, ctx_state, notifier, sent, stateVars, old_default_mute, event,
                   updated_source, subscribe_result, pre>>

\* connect_to_server: one iteration of the wait loop
ConnectRecv ==
    /\ pc = "connect_wait"
    /\ chan # <<>>
    /\ chan' = Tail(chan)
    /\ LET e == Head(chan)
           outcome == connect_outcome(ctx_state)
       IN
       CASE e = Shutdown ->
               /\ ConnectFailed("Shutdown", e, "-")
               /\ notifier' = notifier
         [] e = CallbackDone /\ outcome = "continue" ->
               /\ pc' = pc
               /\ result' = result
               /\ notifier' = notifier
               /\ last' = [NoStep EXCEPT !.kind = "partial", !.event = e, !.state = ctx_state]
         [] e = CallbackDone /\ outcome = "Ok" ->
               /\ pc' = "new"
               /\ result' = result
               /\ notifier' = FALSE
               /\ last' = [NoStep EXCEPT !.kind = "connected", !.event = e, !.state = ctx_state]
         [] e = CallbackDone /\ outcome \notin {"continue", "Ok"} ->
               /\ ConnectFailed(outcome, e, ctx_state)
               /\ notifier' = notifier
         [] OTHER ->
               /\ ConnectFailed("Panic", e, "-")
               /\ notifier' = notifier
    /\ UNCHANGED <<lock, ctx_state, sent, stateVars, old_default_mute, event,
                   updated_source, subscribe_result, pre>>

\* ListenerState::new, first half: get_sources.  A failure leaves main.
NewGetSources ==
    /\ pc = "new"
    /\ lock' = Request(lock)
    /\ \E srv \in Sources : \E reply \in SourceInfoListReplies(srv) :
          LET r == get_sources(reply)
              done == [NoStep EXCEPT !.held = Request(lock),
                                     !.listed = Listed(srv, reply),
                                     !.items = Len(reply) - 1,
                                     !.ended = reply[Len(reply)].kind]
          IN
          IF r.res = "Ok"
          THEN /\ sources' = r.val
               /\ pc' = "new_default"
               /\ result' = result
               /\ last' = [done EXCEPT !.kind = "partial"]
          ELSE /\ sources' = sources
               /\ pc' = "done"
               /\ result' = r.res
               /\ last' = [done EXCEPT !.kind = "returned"]
    /\ UNCHANGED <<sent, chan, ctx_state, notifier, default_source_id, old_default_mute,
                   event, updated_source, subscribe_result, pre>>

\* ListenerState::new, second half: get_default_source_index; then main
\* reports the initial state and enters subscribe_source_mute, which stops
\* at the top of its loop with old_default_mute taken.
NewDefault ==
    /\ pc = "new_default"
    /\ \E name \in DefaultNames : \E id \in get_default_source_index(name, sources) :
          /\ default_source_id' = id
          /\ old_default_mute' = DefaultMute(sources, id)
          /\ last' = [NoStep EXCEPT !.kind = "startup",
                                    !.out = report_mute_change(sources, id, None),
                                    !.reports = 1,
                                    !.default_name = Some(name),
                                    !.held = Request(lock)]
    /\ lock' = Request(Request(lock))
    /\ pc' = "recv"
    /\ subscribe_result' = "Running"
    /\ UNCHANGED <<sent, chan, ctx_state, notifier, sources, event, updated_source,
                   result, pre>>

\* rx.recv() yields e.
Recv(e) ==
    /\ pc = "recv"
    /\ chan # <<>>
    /\ Head(chan) = e
    /\ chan' = Tail(chan)

\* What the consumer has done for event e when its handling ends in one step.
Handled(kind, e, upd, rep, o, n) ==
    [kind |-> kind, event |-> e, old |-> old_default_mute, out |-> o, reports |-> n,
     sources |-> sources, default_source_id |-> default_source_id,
     updated_source |-> upd, default_name |-> None, repeat |-> rep,
     held |-> IF upd = NotFetched THEN lock ELSE Request(lock),
     listed |-> NoSources, items |-> 0, ended |-> "-",
     state |-> "-"]

\* What the consumer has done for `event` when its handling ends in a later
\* step; name is what get_server_info replied for it.
HandledLater(kind, name, rep, o, n) ==
    [kind |-> kind, event |-> event, old |-> old_default_mute, out |-> o, reports |-> n,
     sources |-> pre.sources, default_source_id |-> pre.default_source_id,
     updated_source |-> updated_source, default_name |-> name, repeat |-> rep,
     held |-> Request(lock), listed |-> NoSources, items |-> 0, ended |-> "-",
     state |-> "-"]

\* Back at the top of the loop, where old_default_mute is taken anew.
Iterate(srcs, id) ==
    /\ pc' = "recv"
    /\ old_default_mute' = DefaultMute(srcs, id)
    /\ event' = NoEvent
    /\ updated_source' = NotFetched
    /\ pre' = Idle
    /\ UNCHANGED <<subscribe_result, result>>

\* subscribe_source_mute returns Err(err); main calls terminate and returns.
Return(err) ==
    /\ pc' = "done"
    /\ old_default_mute' = None
    /\ event' = NoEvent
    /\ updated_source' = NotFetched
    /\ pre' = Idle
    /\ subscribe_result' = err
    /\ result' = main_result(err)

\* An event needs another request: the handler waits for its reply.
Await(where, e, upd, rep, name) ==
    /\ pc' = where
    /\ event' = e
    /\ updated_source' = upd
    /\ pre' = [sources |-> sources, default_source_id |-> default_source_id,
               repeat |-> rep, default_name |-> name]
    /\ last' = [NoStep EXCEPT !.kind = "partial", !.event = e, !.held = Request(lock)]
    /\ UNCHANGED <<old_default_mute, subscribe_result, result>>

\* CallbackComms::Shutdown
RecvShutdown ==
    /\ Recv(Shutdown)
    /\ Return("Shutdown")
    /\ last' = Handled("returned", Shutdown, NotFetched, FALSE, <<>>, 0)
    /\ lock' = terminate(lock)
    /\ UNCHANGED <<sent, ctx_state, notifier, stateVars>>

\* CallbackComms::CallbackDone in the main loop: panic!("impossible state")
RecvCallbackDone ==
    /\ Recv(CallbackDone)
    /\ pc' = "done"
    /\ subscribe_result' = "Panic"
    /\ result' = "Panic"
    /\ old_default_mute' = None
    /\ last' = Handled("returned", CallbackDone, NotFetched, FALSE, <<>>, 0)
    /\ UNCHANGED <<lock, sent, ctx_state, notifier, stateVars, event, updated_source, pre>>

\* PulseChange::Server, up to the reply of get_server_info
RecvServer ==
    /\ Recv(ChangeType("Server", 0))
    /\ \E name \in DefaultNames : \E id \in get_default_source_index(name, sources) :
          /\ default_source_id' = id
          /\ Await("srv_reload", ChangeType("Server", 0), NotFetched, FALSE, Some(name))
    /\ lock' = Request(lock)
    /\ UNCHANGED <<sent, ctx_state, notifier, sources>>

\* PulseChange::Server, the reply of get_source_info_list
ServerReload ==
    /\ pc = "srv_reload"
    /\ \E srv \in Sources : \E reply \in SourceInfoListReplies(srv) :
          LET r == get_sources(reply) IN
          IF r.res = "Ok"
          THEN /\ sources' = r.val
               /\ Iterate(r.val, default_source_id)
               /\ lock' = Request(lock)
               /\ last' = [HandledLater("handled", pre.default_name, FALSE,
                               report_mute_change(r.val, default_source_id, old_default_mute), 1)
                              EXCEPT !.listed = Listed(srv, reply), !.items = Len(reply) - 1,
                                     !.ended = reply[Len(reply)].kind]
          ELSE /\ sources' = sources
               /\ Return(r.res)
               /\ lock' = terminate(Request(lock))
               /\ last' = [HandledLater("returned", pre.default_name, FALSE, <<>>, 0)
                              EXCEPT !.listed = Listed(srv, reply), !.items = Len(reply) - 1,
                                     !.ended = reply[Len(reply)].kind]
    /\ UNCHANGED <<sent, chan, ctx_state, notifier, default_source_id>>

\* PulseChange::SourceNew
RecvSourceNew ==
    /\ \E idx \in Ids :
          /\ Recv(ChangeType("SourceNew", idx))
          /\ last' = Handled("handled", ChangeType("SourceNew", idx), NotFetched, FALSE,
                         report_mute_change(sources, default_source_id, old_default_mute), 1)
    /\ Iterate(sources, default_source_id)
    /\ UNCHANGED <<lock, sent, ctx_state, notifier, stateVars>>

\* PulseChange::SourceChange, up to the reply of get_source_info_by_index
RecvSourceChange ==
    /\ \E idx \in Ids :
       LET e == ChangeType("SourceChange", idx) IN
          /\ Recv(e)
          /\ \E src \in {None} \cup {Some(d) : d \in SourceDatum} :
             \E reply \in SourceInfoByIndexReplies(idx, src) :
                LET r == get_source_by_idx(reply)
                    rep == /\ last.kind = "handled"
                           /\ last.event = e
                           /\ r.res = "Ok"
                           /\ r.val # None
                           /\ last.updated_source = r
                IN
                IF r.res # "Ok"
                THEN IF r.res = "SrcListError"
                     THEN /\ sources' = sources
                          /\ Iterate(sources, default_source_id)
                          /\ last' = Handled("handled", e, r, rep, <<>>, 0)
                     ELSE /\ sources' = sources
                          /\ Return(r.res)
                          /\ last' = Handled("returned", e, r, rep, <<>>, 0)
                ELSE IF r.val = None
                     THEN /\ sources' = sources
                          /\ Return("SrcListError")
                          /\ last' = Handled("returned", e, r, rep, <<>>, 0)
                     ELSE /\ sources' = Insert(sources, idx, r.val[1])
                          /\ IF default_source_id = None
                             THEN Await("chg_resolve", e, r, rep, last.default_name)
                             ELSE /\ Iterate(sources', default_source_id)
                                  /\ last' = Handled("handled", e, r, rep,
                                                 report_mute_change(sources', default_source_id,
                                                                    old_default_mute), 1)
    /\ lock' = IF pc' = "done" THEN terminate(Request(lock)) ELSE Request(lock)
    /\ UNCHANGED <<sent, ctx_state, notifier, default_source_id>>

\* PulseChange::SourceChange with no default source: the reply of
\* get_server_info
ChangeResolve ==
    /\ pc = "chg_resolve"
    /\ \E name \in DefaultNames : \E id \in get_default_source_index(name, sources) :
          /\ default_source_id' = id
          /\ Iterate(sources, id)
          /\ last' = HandledLater("handled", Some(name),
                         pre.repeat /\ pre.default_name = Some(name),
                         report_mute_change(sources, id, old_default_mute), 1)
    /\ lock' = Request(lock)
    /\ UNCHANGED <<sent, chan, ctx_state, notifier, sources>>

\* PulseChange::SourceDrop
RecvSourceDrop ==
    /\ \E idx \in Ids :
          /\ Recv(ChangeType("SourceDrop", idx))
          /\ sources' = Remove(sources, idx)
          /\ last' = Handled("handled", ChangeType("SourceDrop", idx), NotFetched, FALSE,
                         report_mute_change(sources', default_source_id, old_default_mute), 1)
    /\ Iterate(sources', default_source_id)
    /\ UNCHANGED <<lock, sent, ctx_state, notifier, default_source_id>>

Producer == StateChange \/ Notify \/ Signal

Consumer ==
    \/ ConnectLock
    \/ ConnectRequest
    \/ ConnectRecv
    \/ NewGetSources
    \/ NewDefault
    \/ RecvShutdown
    \/ RecvCallbackDone
    \/ RecvServer
    \/ ServerReload
    \/ RecvSourceNew
    \/ RecvSourceChange
    \/ ChangeResolve
    \/ RecvSourceDrop

Next == Producer \/ Consumer

Spec == Init /\ [][Next]_vars

\* The collaborator answers every request, the consumer thread runs, and a
\* connection that is being set up goes on to Ready, Failed or Terminated.
FairSpec == Spec /\ WF_vars(Consumer) /\ WF_vars(StateChange)

(***************************************************************************)
(* Properties                                                              *)
(***************************************************************************)

\* The mute flag of the default source after the step just taken.
NewMuted == DefaultMute(sources, default_source_id)

\* The line the reporter is to print for a new mute value.
Line(new) ==
    IF new = None THEN "No default source" ELSE IF new[1] THEN "MUTED" ELSE "UNMUTED"

\* The step just taken ended the handling of an event of that kind, and the
\* loop goes on.
HandledChange(change) == last.kind = "handled" /\ last.event.change = change

ShutdownQueued == \E k \in 1..Len(chan) : chan[k] = Shutdown

\* C1: an event handled with the default source's mute value the same before
\* and after it (None and None included) prints no line.
C1_NoPrintWhenUnchanged ==
    (last.kind = "handled" /\ last.old = NewMuted) => last.out = <<>>

\* C2: whenever the mute value before differs from the one after, exactly one
\* line is printed: MUTED for Some(true), UNMUTED for Some(false), also from
\* None, and "No default source" for None after Some(_).
C2_OneLinePerChange ==
    (last.kind \in {"handled", "startup"} /\ last.old # NewMuted)
        => last.out = <<Line(NewMuted)>>

C2_Witness ==
    /\ last.kind = "handled"
    /\ last.old = None
    /\ NewMuted = Some(FALSE)
    /\ last.out = <<"UNMUTED">>

\* C3: every dequeued event that does not end the loop is followed by exactly
\* one call of the reporter before the next event is dequeued.
C3_OneReportPerEvent == last.kind = "handled" => last.reports = 1

\* C4 as claimed, for the lines MUTED and UNMUTED: handling SourceChanged(id)
\* with id different from the default_id of before the event prints no such
\* line.
C4_NonDefaultSilent ==
    (HandledChange("SourceChange") /\ last.default_source_id # Some(last.event.idx))
        => last.out \notin {<<"MUTED">>, <<"UNMUTED">>}

\* C4 as amended: with default_id = Some(d) before the event and id # d,
\* handling SourceChanged(id) leaves the default source's mute value as it
\* was and prints neither MUTED nor UNMUTED; it prints nothing at all when d
\* is in the cache.
C4_OtherSourceSilent ==
    (/\ HandledChange("SourceChange")
     /\ last.default_source_id # None
     /\ last.default_source_id # Some(last.event.idx))
        => /\ NewMuted = last.old
           /\ default_source_id = last.default_source_id
           /\ last.out \in {<<>>, <<"No default source">>}
           /\ last.default_source_id[1] \in DOMAIN last.sources => last.out = <<>>

C4_Witness ==
    /\ HandledChange("SourceChange")
    /\ last.default_source_id # None
    /\ last.default_source_id # Some(last.event.idx)
    /\ last.default_source_id[1] \in DOMAIN last.sources
    /\ last.event.idx \in DOMAIN last.sources
    /\ sources[last.event.idx].mute # last.sources[last.event.idx].mute
    /\ last.reports = 1
    /\ last.out = <<>>

\* C5: when SourceChanged(id) is handled again right after SourceChanged(id)
\* and the server describes the same record (and names the same default
\* source), the later handling prints nothing.
C5_RepeatSilent == (last.kind = "handled" /\ last.repeat) => last.out = <<>>

\* C6: when no default source is resolved before a ServerChanged and the server's
\* default source name is that of one source it lists, with mute flag x, that
\* source is the default after the event and the one line for x is printed.
C6_ServerResolves ==
    \A i \in DOMAIN sources :
        (/\ HandledChange("Server")
         /\ last.old = None
         /\ last.default_name = Some(Some(sources[i].name))
         /\ \A j \in DOMAIN sources : sources[j].name = sources[i].name => j = i)
            => /\ default_source_id = Some(i)
               /\ last.out = <<Line(Some(sources[i].mute))>>

\* C7: with default_id = Some(d) and d in the cache, handling SourceRemoved(d)
\* removes d, raises no error, leaves no default source to report and prints
\* exactly "No default source".
C7_RemovedDefault ==
    (/\ last.kind \in {"handled", "returned"}
     /\ last.event.change = "SourceDrop"
     /\ last.default_source_id = Some(last.event.idx)
     /\ last.event.idx \in DOMAIN last.sources)
        => /\ last.event.idx \notin DOMAIN sources
           /\ last.kind = "handled"
           /\ pc = "recv"
           /\ result = "Running"
           /\ default_source(sources, default_source_id) = None
           /\ last.out = <<"No default source">>

C7_Witness ==
    /\ HandledChange("SourceDrop")
    /\ last.default_source_id = Some(last.event.idx)
    /\ last.event.idx \in DOMAIN last.sources
    /\ last.old # None
    /\ last.out = <<"No default source">>

\* C8: handling SourceAdded(id) leaves the cache and default_id as they were
\* and prints no line.
C8_AddedIsIgnored ==
    HandledChange("SourceNew")
        => /\ sources = last.sources
           /\ default_source_id = last.default_source_id
           /\ last.out = <<>>

\* C9: when the request of SourceChanged(id) ends with End and no item, the
\* loop goes on, no error is returned and id is not in the cache afterwards.
C9_VanishedIsRemoved ==
    (/\ last.kind \in {"handled", "returned"}
     /\ last.event.change = "SourceChange"
     /\ last.updated_source = Ok(None))
        => /\ last.kind = "handled"
           /\ pc = "recv"
           /\ result = "Running"
           /\ last.event.idx \notin DOMAIN sources

\* C10 as claimed, no source having vanished: once Shutdown is on the channel
\* of the main loop, the process ends with a success result.
C10_ShutdownAlwaysOk ==
    (/\ pc = "done"
     /\ subscribe_result \notin {"NotCalled", "Panic"}
     /\ last.updated_source # Ok(None)
     /\ ShutdownQueued \/ subscribe_result = "Shutdown")
        => result = "Ok"

\* The main loop has dequeued Shutdown: it returns at once, nothing applied or
\* reported, and main returns Ok; it ends in no other way than by Shutdown,
\* by the error of an event handled before it or by the panic on a message
\* that is no event.
C10_Safe ==
    /\ (last.kind = "returned" /\ last.event = Shutdown)
          => /\ pc = "done"
             /\ subscribe_result = "Shutdown"
             /\ result = "Ok"
             /\ sources = last.sources
             /\ default_source_id = last.default_source_id
             /\ last.out = <<>>
             /\ last.reports = 0
    /\ (pc = "done" /\ subscribe_result # "NotCalled")
          => \/ subscribe_result = "Shutdown" /\ result = "Ok"
             \/ subscribe_result = "SrcListError" /\ result = "SrcListError"
             \/ subscribe_result = "Panic" /\ result = "Panic"

\* The messages leave the channel in the order they were sent.
C10_InOrder ==
    Len(chan') < Len(chan) => chan' = Tail(chan) /\ last'.event = Head(chan)

\* C10 as amended: once Shutdown is on the channel, the consumer handles the
\* messages sent before it in order; unless one of them ends the loop with an
\* error or a panic, which is then the process result, it dequeues Shutdown, leaves the
\* loop with nothing further applied or reported and the process ends with
\* success; with the collaborator answering, the loop ends in either case.
C10_Shutdown ==
    /\ []C10_Safe
    /\ [][C10_InOrder]_vars
    /\ (ShutdownQueued ~> pc = "done")

C10_Witness ==
    /\ last.kind = "returned"
    /\ last.event = Shutdown
    /\ result = "Ok"
    /\ sent = MaxEvents
    /\ last.sources # NoSources

\* The consumer is inside connect_to_server.
Connecting == pc \in {"connect", "connect_locked", "connect_wait"}

\* The step just taken ended a get_source_info_list request.
ListEnded(kind) == last.ended = kind

\* C11: the consumer never blocks on a receive while it owns the processing
\* lock: whenever it waits on the event channel or is between two requests
\* the lock is free, and each request of the step just taken (connect,
\* subscribe, list, describe one, server info) released the lock before the
\* receive of its response.
C11_LockDiscipline ==
    /\ last.held = "free"
    /\ pc \notin {"connect_locked", "done"} => lock = "free"

C11_Witness ==
    /\ HandledChange("SourceChange")
    /\ last.updated_source # NotFetched
    /\ last.default_name # None
    /\ last.held = "free"
    /\ pc = "recv"
    /\ chan = <<>>
    /\ lock = "free"

\* C12 as claimed: connect_to_server returns from its wait loop only with one
\* of the states Ready, Failed and Terminated observed.
C12_ReturnsOnTerminalOnly ==
    (last.kind \in {"connected", "connect_failed"} /\ last.event # NoEvent)
        => last.state \in TerminalStates

\* What connect_to_server does: the notifier is set while it waits, it goes
\* on waiting for a state that is not terminal, returns Ok only for Ready and
\* with the notifier removed, and returns one error for Failed, another for
\* Terminated, Shutdown for a termination signal and the error of a connect
\* request that could not be issued.
C12_Safe ==
    /\ pc = "connect_wait" => notifier
    /\ (last.kind = "partial" /\ last.event = CallbackDone)
          => last.state \notin TerminalStates /\ pc = "connect_wait"
    /\ last.kind = "connected"
          => /\ last.state = "Ready"
             /\ last.event = CallbackDone
             /\ ~notifier
             /\ pc = "new"
             /\ result = "Running"
    /\ last.kind = "connect_failed"
          => /\ pc = "done"
             /\ \/ last.event = CallbackDone /\ last.state = "Failed" /\ result = "ContextFailed"
                \/ last.event = CallbackDone /\ last.state = "Terminated"
                      /\ result = "ContextTerminated"
                \/ last.event = Shutdown /\ last.state = "-" /\ result = "Shutdown"
                \/ last.event = NoEvent /\ last.state = "-" /\ result = "PAError"

\* C12 as amended: the notifier is set before the connect request is issued;
\* connect_to_server then waits until it observes Ready, Failed or Terminated
\* or dequeues Shutdown, and with every state change notified and the
\* connection going on to one of these states it always returns; Ok only for
\* Ready, distinct errors for Failed and Terminated, the notifier removed
\* after Ready.
C12_ConnectLifecycle ==
    /\ []C12_Safe
    /\ (pc = "connect_wait" ~> pc # "connect_wait")

C12_Witness ==
    /\ last.kind = "connected"
    /\ last.state = "Ready"
    /\ ~notifier
    /\ chan = <<>>

\* The table of the subscription translator.
Translation(facility, operation, idx) ==
    IF facility = "Source"
    THEN IF operation = "Changed" THEN <<ChangeType("SourceChange", idx)>>
         ELSE IF operation = "New" THEN <<ChangeType("SourceNew", idx)>>
         ELSE <<ChangeType("SourceDrop", idx)>>
    ELSE IF facility = "Server" THEN <<ChangeType("Server", 0)>>
    ELSE <<>>

\* A step of the subscribe callback.
CallbackStep == Subscribed /\ sent' # sent /\ chan' # Append(chan, Shutdown)

C14_FatalReload ==
    (last.event = ChangeType("Server", 0) /\ ListEnded("Error"))
        => /\ last.kind = "returned"
           /\ pc = "done"
           /\ subscribe_result = "SrcListError"
           /\ result = "SrcListError"
           /\ last.out = <<>>
           /\ last.reports = 0

C14_Witness ==
    /\ last.event = ChangeType("Server", 0)
    /\ ListEnded("Error")
    /\ last.items > 0
    /\ last.old # None
    /\ result = "SrcListError"

\* C15: when SourceChanged(id) is handled with no default source resolved
\* before it (default_id None, or not in the cache) and the fetch returned a
\* record, the default is resolved again, and a record that alone bears the
\* server's default source name is the default afterwards.
C15_ReResolves ==
    (/\ HandledChange("SourceChange")
     /\ last.updated_source.res = "Ok"
     /\ last.updated_source.val # None
     /\ default_source(last.sources, last.default_source_id) = None)
        => /\ last.default_name # None
           /\ (\A j \in DOMAIN sources :
                  Some(sources[j].name) = last.default_name[1] => j = last.event.idx)
                 => default_source_id \in {None, Some(last.event.idx)}
           /\ (/\ Some(sources[last.event.idx].name) = last.default_name[1]
               /\ \A j \in DOMAIN sources :
                     sources[j].name = sources[last.event.idx].name => j = last.event.idx)
                 => default_source_id = Some(last.event.idx)

\* C16: a ServerChanged handled with success resolved default_id against the
\* cache of before the event, whatever the outcome, and the cache is then
\* exactly what the server listed.
C16_ServerReloads ==
    HandledChange("Server")
        => /\ ListEnded("End")
           /\ sources = last.listed
           /\ last.default_name # None
           /\ default_source_id \in get_default_source_index(last.default_name[1], last.sources)

C16_Witness ==
    /\ HandledChange("Server")
    /\ default_source_id = None
    /\ \E i \in DOMAIN last.sources : i \notin DOMAIN sources
    /\ \E i \in DOMAIN sources : i \notin DOMAIN last.sources
    /\ sources = last.listed

\* C17: get_sources returns a cache only for a list that reached its End,
\* holding exactly the items delivered; for a list cut by an Error at any
\* point it returns the list error, and the cache of the listener stays as
\* it was.
C17_AllOrNothing ==
    /\ ListEnded("End")
          => /\ last.kind \in {"partial", "handled"}
             /\ sources = last.listed
             /\ Cardinality(DOMAIN sources) = last.items
    /\ ListEnded("Error")
          => /\ last.kind = "returned"
             /\ sources = last.sources
             /\ result = "SrcListError"

C17_Witness ==
    /\ ListEnded("Error")
    /\ last.items > 0
    /\ last.sources # NoSources
    /\ sources = last.sources
    /\ result = "SrcListError"

\* C18: a Shutdown dequeued by the wait loop of connect_to_server ends the
\* process with success, as one dequeued by the main loop does.
C18_ShutdownWhileConnecting ==
    (last.kind = "connect_failed" /\ last.event = Shutdown) => result = "Ok"

\* C19: no CallbackDone message is on the channel once connect_to_server has
\* returned, and the main loop never panics on one.
C19_NoCallbackDoneLeft ==
    /\ ~Connecting => \A k \in 1..Len(chan) : chan[k] # CallbackDone
    /\ result # "Panic"

\* C20: whenever main has returned, the consumer does not own the processing
\* lock.
C20_LockBalance == pc = "done" => lock = "free"

\* C21: main reports once when ListenerState::new has built the cache and the
\* default, with no message dequeued by the main loop yet and nothing printed
\* before: exactly one line, MUTED or UNMUTED by the mute flag of the default
\* source, "No default source" when none resolves; when the first list
\* request fails nothing is printed and main returns the error.
C21_StartupReport ==
    /\ pc \in {"connect", "connect_locked", "connect_wait", "new", "new_default"}
          => last.out = <<>> /\ last.reports = 0
    /\ last.kind = "startup"
          => /\ last.out = <<Line(NewMuted)>>
             /\ last.reports = 1
             /\ last.event = NoEvent
             /\ pc = "recv"
             /\ result = "Running"
    /\ (last.kind = "returned" /\ last.event = NoEvent)
          => /\ ListEnded("Error")
             /\ last.out = <<>>
             /\ last.reports = 0
             /\ pc = "done"
             /\ subscribe_result = "NotCalled"
             /\ result = "SrcListError"

C21_Witness ==
    /\ last.kind = "startup"
    /\ last.out = <<"MUTED">>
    /\ Cardinality(DOMAIN sources) = Len(IdSeq)
    /\ chan = <<Shutdown>>

C21_FailedWitness ==
    /\ last.kind = "returned"
    /\ last.event = NoEvent
    /\ last.items > 0
    /\ result = "SrcListError"

====
